---- MODULE Spec2Model ----
(***************************************************************************)
(* Credit ledger and payment reconciliation of DeelrzCRM                   *)
(* (server/storage.ts, server/routes.ts, shared/schema.ts).                *)
(*                                                                         *)
(* Money.  A decimal string of the API or of a numeric(10,2) column is a   *)
(* record [k, m]: k = "num" with m the value in thousandths (0.005 is 5,   *)
(* 0.01 is 10), k = "nan" for the literal "NaN" (which Postgres numeric    *)
(* stores and JavaScript parses as NaN), k = "bad" for text that is not a  *)
(* number.  A JavaScript number is a record [nan, m, lo]: m the value in   *)
(* thousandths and lo telling that the IEEE double lies below that         *)
(* decimal value, which decides toFixed(2) on a tie.                       *)
(***************************************************************************)
EXTENDS Integers, Sequences, FiniteSets, TLC

\* ------------------------------------------------------------------ bounds
MaxLimit == 2      \* largest credit limit, in cents
MaxCredits == 2    \* rows of the credits table
MaxTx == 2         \* rows of the credit_transactions table
MaxPayments == 2   \* rows of the payments table
MaxIntents == 2    \* payment intents the gateway creates
MaxRefunds == 2    \* refunds the gateway creates
MaxEvents == 2     \* event ids the gateway sends
MaxDeliveries == 2 \* deliveries of events, all events together

Tenants == {"t1", "t2"}
Customers == {"c1"}
Procs == {"p1", "p2"}      \* concurrent HTTP requests

\* ------------------------------------------------------------------- money
Str(m) == [k |-> "num", m |-> m]
StrNaN == [k |-> "nan", m |-> 0]
StrBad == [k |-> "bad", m |-> 0]

Num(m) == [nan |-> FALSE, m |-> m, lo |-> FALSE]
NumNaN == [nan |-> TRUE, m |-> 0, lo |-> FALSE]

Abs(i) == IF i < 0 THEN 0 - i ELSE i
Sgn(i) == IF i < 0 THEN 0 - 1 ELSE 1

\* parseFloat of a decimal string
parseFloat(s) == IF s.k = "num" THEN Num(s.m) ELSE NumNaN

\* Balances b (in cents, 0.00 .. 0.40) for which the double b + 0.005 lies
\* below the decimal b.005, so that toFixed(2) gives b and not b + 0.01
\* (IEEE 754 binary64, round to nearest even).
TieDown == {1, 3, 4, 15, 18, 21, 24, 29, 30, 35, 36}

\* x + y on JavaScript numbers
NumAdd(x, y) ==
  IF x.nan \/ y.nan THEN NumNaN
  ELSE [nan |-> FALSE, m |-> x.m + y.m,
        lo |-> /\ x.m >= 0 /\ x.m % 10 = 0 /\ y.m = 5
               /\ (x.m \div 10) \in TieDown]

\* x > y on JavaScript numbers: false when either is NaN
NumGt(x, y) == ~x.nan /\ ~y.nan /\ x.m > y.m
\* x < y on JavaScript numbers
NumLt(x, y) == ~x.nan /\ ~y.nan /\ x.m < y.m

\* Number.prototype.toFixed(2): the nearest hundredth of the double, the
\* larger one when the double is exactly half way
toFixed2(x) ==
  IF x.nan THEN StrNaN
  ELSE LET a == Abs(x.m)
           r == a % 10
           q == a \div 10
           n == IF r < 5 THEN q
                ELSE IF r > 5 THEN q + 1
                ELSE IF x.lo THEN q ELSE q + 1
       IN Str(Sgn(x.m) * n * 10)

\* Postgres cast of a decimal string to numeric(10,2): rounds half away from
\* zero, keeps NaN
PgNumeric(s) ==
  IF s.k = "nan" THEN StrNaN
  ELSE Str(Sgn(s.m) * ((Abs(s.m) + 5) \div 10) * 10)

Cents(c) == Str(10 * c)

\* ------------------------------------------------------------------- state
VARIABLES
  credits,             \* credits table: sequence of rows, id = position
  creditTransactions,  \* credit_transactions table (committed rows)
  pc,                  \* per request: position inside createCreditTransaction
  req,                 \* per request: the InsertCreditTransaction argument
  creditAccount,       \* per request: the row read by the select
  newTransaction,      \* per request: uncommitted inserted row (or NoTx)
  rowLock,             \* per request: id of the credits row it holds updated
  result,              \* per request: the response of its last call
  solo,                \* per request: nothing else has run since it began
  payments,            \* payments table: sequence of rows, id = position
  stripeIntents,       \* gateway: number of payment intents created
  stripeRefunds,       \* gateway: the charge of every refund created
  payPc,               \* per request: position inside a payment handler
  payLocal,            \* per request: the handler's local variables
  reply,               \* per request: the response of its last payment call
  intentStatus,        \* gateway: the status of every payment intent
  webhookEvents,       \* webhook_events table: sequence of rows
  applied,             \* per event id: payment mutations its dispatch made
  gatewayEvents        \* gateway: the events it has emitted, id = position

ledgerVars == <<credits, creditTransactions, pc, req, creditAccount,
                newTransaction, rowLock, result, solo>>
hookVars == <<webhookEvents, applied, gatewayEvents>>
payVars == <<payments, stripeIntents, stripeRefunds, payPc, payLocal, reply,
             intentStatus, hookVars>>
vars == <<ledgerVars, payVars>>

NoCredit == [id |-> 0, tenantId |-> "", customerId |-> "",
             limitAmount |-> Str(0), balance |-> Str(0), status |-> ""]
NoTx == [id |-> 0, tenantId |-> "", customerId |-> "", amount |-> Str(0),
         status |-> ""]
NoReq == [tenantId |-> "", customerId |-> "", amount |-> Str(0)]
\* a response: the route and the HTTP status; of a 201 the amount of the
\* returned transaction row; of the limit message the three amounts it
\* prints; of a 500 the statement whose error the handler logs
NoResult == [route |-> "", status |-> 0, amount |-> Str(0), failed |-> "",
             current |-> Str(0), limit |-> Str(0), requested |-> Str(0)]
Response(route, status) == [NoResult EXCEPT !.route = route, !.status = status]

\* jsonb metadata of a payment: null, or an object with the keys the handlers
\* write (0 and "" stand for an absent key)
NullMetadata == [null |-> TRUE, status |-> "", chargeId |-> 0,
                 failureReason |-> "", refundId |-> 0]
Metadata(status, chargeId, failureReason, refundId) ==
  [null |-> FALSE, status |-> status, chargeId |-> chargeId,
   failureReason |-> failureReason, refundId |-> refundId]
\* a payments row; paymentIntentId and chargeId 0 stand for SQL null
NoPayment == [id |-> 0, tenantId |-> "", status |-> "", method |-> "",
              paymentIntentId |-> 0, chargeId |-> 0, metadata |-> NullMetadata,
              updatedAt |-> 0]
\* updated_at: 0 is the insert's default now(), 1 any later instant, the
\* new Date() of an update
NewDate == 1
NoLocal == [tenantId |-> "", payment |-> NoPayment, status |-> "",
            metadata |-> NullMetadata, paymentIntent |-> 0, refund |-> 0,
            amount |-> [type |-> "undefined", v |-> 0], event |-> 0]
NoReply == [route |-> "", status |-> 0, payment |-> NoPayment, message |-> ""]
Reply(route, status, payment) ==
  [route |-> route, status |-> status, payment |-> payment, message |-> ""]
\* res.status(status).json({message})
Refuse(route, status, message) ==
  [route |-> route, status |-> status, payment |-> NoPayment,
   message |-> message]

Init ==
  /\ credits = <<>>
  /\ creditTransactions = <<>>
  /\ pc = [p \in Procs |-> "idle"]
  /\ req = [p \in Procs |-> NoReq]
  /\ creditAccount = [p \in Procs |-> NoCredit]
  /\ newTransaction = [p \in Procs |-> NoTx]
  /\ rowLock = [p \in Procs |-> 0]
  /\ result = [p \in Procs |-> NoResult]
  /\ solo = [p \in Procs |-> FALSE]
  /\ payments = <<>>
  /\ stripeIntents = 0
  /\ stripeRefunds = <<>>
  /\ payPc = [p \in Procs |-> "idle"]
  /\ payLocal = [p \in Procs |-> NoLocal]
  /\ reply = [p \in Procs |-> NoReply]
  /\ intentStatus = [i \in 1..MaxIntents |-> "none"]
  /\ webhookEvents = <<>>
  /\ applied = [e \in 1..MaxEvents |-> 0]
  /\ gatewayEvents = <<>>

\* a step of request p interleaves with every other request in flight
Interleave(p) == [q \in Procs |-> IF q = p THEN solo[q] ELSE FALSE]

\* ---------------------------------------------------------- ledger inputs
CustomerIds == Customers \cup {"c0"}            \* "c0" names no customers row
CreditStatuses == {"active", "suspended"}
LimitInputs == {Cents(MaxLimit)}
OpeningBalances == {Str(0), Cents(MaxLimit + 1)}
\* amounts of a credit transaction: whole cents; half a cent and "NaN"
CentAmounts == {Cents(k) : k \in 1..MaxLimit}
WideAmounts == CentAmounts \cup {Str(5), StrNaN}
BalanceInputs == {Str(0 - 10), Str(5), Cents(MaxLimit + 1), StrBad}

\* ------------------------------------------------- POST /credit (createCredit)
\* insert into credits ... returning: the columns are cast to numeric(10,2)
createCredit(credit) ==
  Append(credits, [id |-> Len(credits) + 1,
                   tenantId |-> credit.tenantId,
                   customerId |-> credit.customerId,
                   limitAmount |-> PgNumeric(credit.limitAmount),
                   balance |-> PgNumeric(credit.balance),
                   status |-> credit.status])

\* The credits table has a primary key on the generated id and two foreign
\* keys, no unique constraint: error 23505 (the handler's 409) cannot occur.
PostCredit(p, t, c, lim, bal, st) ==
  /\ pc[p] = "idle"
  /\ Len(credits) < MaxCredits
  /\ IF c \notin Customers
     THEN /\ credits' = credits
          /\ result' = [result EXCEPT ![p] = Response("POST /credit", 400)]
     ELSE /\ credits' = createCredit([tenantId |-> t, customerId |-> c,
                                      limitAmount |-> lim, balance |-> bal,
                                      status |-> st])
          /\ result' = [result EXCEPT ![p] = Response("POST /credit", 201)]
  /\ solo' = Interleave(p)
  /\ UNCHANGED <<creditTransactions, pc, req, creditAccount, newTransaction,
                 rowLock, payVars>>

\* ----------------------------- PUT /credit/:creditId/balance (updateBalance)
\* update credits set balance = $1 where id = $2 and tenant_id = $3 returning
Resolves(creditId, tenantId) ==
  /\ creditId \in 1..Len(credits)
  /\ credits[creditId].tenantId = tenantId

\* mutant: the update is keyed by the id alone
updateCreditBalanceById(creditId, tenantId, newBalance) ==
  IF creditId \in 1..Len(credits)
  THEN LET updated == [credits[creditId] EXCEPT
                         !.balance = PgNumeric(newBalance)]
       IN [table |-> [credits EXCEPT ![creditId] = updated],
           updatedCredit |-> updated]
  ELSE [table |-> credits, updatedCredit |-> NoCredit]

\* the table after the update, and the row it returns (NoCredit: undefined)
updateCreditBalance(creditId, tenantId, newBalance) ==
  IF Resolves(creditId, tenantId)
  THEN LET updated == [credits[creditId] EXCEPT
                         !.balance = PgNumeric(newBalance)]
       IN [table |-> [credits EXCEPT ![creditId] = updated],
           updatedCredit |-> updated]
  ELSE [table |-> credits, updatedCredit |-> NoCredit]

PutCreditBalance(p, t, creditId, balance) ==
  /\ pc[p] = "idle"
  /\ IF \/ parseFloat(balance).nan
        \/ NumLt(parseFloat(balance), Num(0))
     THEN /\ credits' = credits
          /\ result' = [result EXCEPT ![p] = Response("PUT /balance", 400)]
     ELSE \* the update waits for a transaction that holds the row
          /\ \A q \in Procs : Resolves(creditId, t) => rowLock[q] # creditId
          /\ LET done == updateCreditBalance(creditId, t, balance)
             IN /\ credits' = done.table
                /\ result' = [result EXCEPT ![p] =
                     Response("PUT /balance",
                              IF done.updatedCredit = NoCredit
                              THEN 404 ELSE 200)]
  /\ solo' = Interleave(p)
  /\ UNCHANGED <<creditTransactions, pc, req, creditAccount, newTransaction,
                 rowLock, payVars>>

\* -------------- POST /credit-transactions (createCreditTransaction)
\* The work runs in db.transaction at Postgres' default isolation, READ
\* COMMITTED: the select reads committed rows and takes no lock, the insert
\* stays invisible until commit, the update locks the credits row until the
\* transaction ends, a throw rolls everything back.

\* mutant: the select filters by the customer alone
MatchingCustomer(t, c) ==
  {i \in 1..Len(credits) : credits[i].customerId = c}

\* rows the select of the credit account returns
Matching(t, c) ==
  {i \in 1..Len(credits) :
     credits[i].tenantId = t /\ credits[i].customerId = c}

InFlight == {q \in Procs : pc[q] # "idle"}

\* const newBalance = (currentBalance + transactionAmount).toFixed(2)
NewBalance(account, amount) ==
  toFixed2(NumAdd(parseFloat(account.balance), parseFloat(amount)))

\* mutant: an account that is not active takes no charge
ExceedsLimitOrInactive(account, amount) ==
  \/ account.status # "active"
  \/ NumGt(parseFloat(NewBalance(account, amount)),
           parseFloat(account.limitAmount))
\* if (parseFloat(newBalance) > creditLimit)
ExceedsLimit(account, amount) ==
  NumGt(parseFloat(NewBalance(account, amount)),
        parseFloat(account.limitAmount))

\* the tables after the transaction of request p commits
\* mutant: the update names the customer, not the id of the row read
CommitCreditsByCustomer(p) ==
  [i \in 1..Len(credits) |->
     IF credits[i].customerId = creditAccount[p].customerId
     THEN [credits[i] EXCEPT !.balance =
             PgNumeric(NewBalance(creditAccount[p], req[p].amount))]
     ELSE credits[i]]
CommitCredits(p) ==
  [credits EXCEPT ![creditAccount[p].id].balance =
     PgNumeric(NewBalance(creditAccount[p], req[p].amount))]
\* mutant: the commit also settles the customer's earlier rows to zero
CommitRewritesRows(p) ==
  Append([i \in 1..Len(creditTransactions) |->
            IF creditTransactions[i].customerId = newTransaction[p].customerId
            THEN [creditTransactions[i] EXCEPT !.amount = Str(0)]
            ELSE creditTransactions[i]],
         [newTransaction[p] EXCEPT !.id = Len(creditTransactions) + 1])
CommitTransactions(p) ==
  Append(creditTransactions,
         [newTransaction[p] EXCEPT !.id = Len(creditTransactions) + 1])

\* the tables after the transaction of request p rolls back
RollbackCredits(p) == credits
\* mutant: the insert ran outside the transaction and survives the rollback
RollbackKeepsInsert(p) ==
  IF newTransaction[p] = NoTx
  THEN creditTransactions
  ELSE Append(creditTransactions,
              [newTransaction[p] EXCEPT !.id = Len(creditTransactions) + 1])
RollbackTransactions(p) == creditTransactions

\* the request returns: its locals are gone
Return(p, res) ==
  /\ pc' = [pc EXCEPT ![p] = "idle"]
  /\ req' = [req EXCEPT ![p] = NoReq]
  /\ creditAccount' = [creditAccount EXCEPT ![p] = NoCredit]
  /\ newTransaction' = [newTransaction EXCEPT ![p] = NoTx]
  /\ rowLock' = [rowLock EXCEPT ![p] = 0]
  /\ result' = [result EXCEPT ![p] = res]
  /\ solo' = [q \in Procs |-> FALSE]
  /\ UNCHANGED payVars

\* the select finds no row: throw, 404
TxNotFound(p, t, c, a) ==
  /\ pc[p] = "idle"
  /\ Matching(t, c) = {}
  /\ Return(p, Response("POST /credit-transactions", 404))
  /\ UNCHANGED <<credits, creditTransactions>>

\* the select returns the rows in no stated order; the first one is taken
TxSelect(p, t, c, a) ==
  /\ pc[p] = "idle"
  /\ Len(creditTransactions) + Cardinality(InFlight) < MaxTx
  /\ \E i \in Matching(t, c) :
       creditAccount' = [creditAccount EXCEPT ![p] = credits[i]]
  /\ pc' = [pc EXCEPT ![p] = "insert"]
  /\ req' = [req EXCEPT ![p] = [tenantId |-> t, customerId |-> c,
                                amount |-> a]]
  /\ result' = [result EXCEPT ![p] = NoResult]
  /\ solo' = [q \in Procs |-> q = p /\ InFlight = {}]
  /\ UNCHANGED <<credits, creditTransactions, newTransaction, rowLock,
                 payVars>>

\* tx.insert(creditTransactions).values(transaction).returning()
TxInsert(p) ==
  /\ pc[p] = "insert"
  /\ newTransaction' = [newTransaction EXCEPT ![p] =
       [id |-> 0, tenantId |-> req[p].tenantId,
        customerId |-> req[p].customerId,
        amount |-> PgNumeric(req[p].amount),
        \* the request names no status: the column's default
        status |-> "pending"]]
  /\ pc' = [pc EXCEPT ![p] = "check"]
  /\ solo' = Interleave(p)
  /\ UNCHANGED <<credits, creditTransactions, req, creditAccount, rowLock,
                 result, payVars>>

\* the limit check throws: rollback, 400 with the message's three amounts
TxLimitExceeded(p) ==
  /\ pc[p] = "check"
  /\ ExceedsLimit(creditAccount[p], req[p].amount)
  /\ credits' = RollbackCredits(p)
  /\ creditTransactions' = RollbackTransactions(p)
  /\ Return(p, [Response("POST /credit-transactions", 400) EXCEPT
         !.current = toFixed2(parseFloat(creditAccount[p].balance)),
         !.limit = toFixed2(parseFloat(creditAccount[p].limitAmount)),
         !.requested = toFixed2(parseFloat(req[p].amount))])

\* tx.update(credits).set({balance: newBalance}).where(id): waits for the row
TxUpdate(p) ==
  /\ pc[p] = "check"
  /\ ~ExceedsLimit(creditAccount[p], req[p].amount)
  /\ \A q \in Procs : rowLock[q] # creditAccount[p].id
  /\ rowLock' = [rowLock EXCEPT ![p] = creditAccount[p].id]
  /\ pc' = [pc EXCEPT ![p] = "commit"]
  /\ solo' = Interleave(p)
  /\ UNCHANGED <<credits, creditTransactions, req, creditAccount,
                 newTransaction, result, payVars>>

\* the callback returns newTransaction: commit, 201
TxCommit(p) ==
  /\ pc[p] = "commit"
  /\ credits' = CommitCredits(p)
  /\ creditTransactions' = CommitTransactions(p)
  /\ Return(p, [Response("POST /credit-transactions", 201) EXCEPT
         !.amount = newTransaction[p].amount])

\* a statement of the transaction (insert, update, commit) fails: rollback, 500
TxStoreFail(p) ==
  /\ \/ pc[p] \in {"insert", "commit"}
     \/ pc[p] = "check" /\ ~ExceedsLimit(creditAccount[p], req[p].amount)
  /\ credits' = RollbackCredits(p)
  /\ creditTransactions' = RollbackTransactions(p)
  /\ Return(p, [Response("POST /credit-transactions", 500) EXCEPT
         !.failed = IF pc[p] = "check" THEN "update" ELSE pc[p]])

\* ---------------------------------------------------------------- payments
\* The payment handlers run outside any transaction: every storage call is a
\* statement of its own, and the gateway is called between them.
PaymentStatuses == {"pending", "completed", "failed", "refunded"}
StatusInputs == PaymentStatuses \cup {"", "void"}   \* "": no status given
\* bodies of POST /payments: a cash payment, and a card payment recorded with
\* the gateway's intent and charge
PaymentInputs ==
  {[method |-> "cash", paymentIntentId |-> 0, chargeId |-> 0],
   [method |-> "card", paymentIntentId |-> 1, chargeId |-> 1]}
\* bodies of POST /confirm-payment
ConfirmStatuses == {"", "pending", "void"}
IntentInputs == 0..MaxIntents                       \* 0: no intent id given
ChargeInputs == {0, 1}
ReasonInputs == {"", "card_declined"}
MetadataInputs == {NullMetadata, Metadata("", 0, "", 0)}
PaymentIds == 0..MaxPayments                        \* 0: no / malformed id
\* req.body.amount as JSON delivers it: a number, or a numeric string such as
\* the "50.00" the other routes of this API take for amounts
JsNumber(v) == [type |-> "number", v |-> v]
JsString(v) == [type |-> "string", v |-> v]
AmountInputs == {JsNumber(0 - 1), JsNumber(0), JsNumber(50), JsString(50)}

\* rows being inserted by requests in flight
Inserting == {q \in Procs : payPc[q] \in {"intent", "insert"}}

\* insert into payments ... returning
createPayment(payment) ==
  Append(payments, [id |-> Len(payments) + 1,
                    tenantId |-> payment.tenantId,
                    status |-> payment.status,
                    method |-> payment.method,
                    paymentIntentId |-> payment.paymentIntentId,
                    chargeId |-> payment.chargeId,
                    metadata |-> NullMetadata,
                    updatedAt |-> 0])

\* mutant: the update is scoped by the payment id alone
updatePaymentStatusById(paymentId, tenantId, status, metadata) ==
  IF paymentId \in 1..Len(payments)
  THEN LET updated == [payments[paymentId] EXCEPT
                         !.status = status,
                         !.metadata = metadata,
                         !.updatedAt = NewDate]
       IN [table |-> [payments EXCEPT ![paymentId] = updated],
           updatedPayment |-> updated]
  ELSE [table |-> payments, updatedPayment |-> NoPayment]

\* mutant: the update leaves updated_at as it is
updatePaymentStatusNoStamp(paymentId, tenantId, status, metadata) ==
  IF /\ paymentId \in 1..Len(payments)
     /\ payments[paymentId].tenantId = tenantId
  THEN LET updated == [payments[paymentId] EXCEPT !.status = status,
                                                  !.metadata = metadata]
       IN [table |-> [payments EXCEPT ![paymentId] = updated],
           updatedPayment |-> updated]
  ELSE [table |-> payments, updatedPayment |-> NoPayment]

\* update payments set status, metadata, updated_at where id and tenant_id
\* returning: the table after it, and the row it returns (NoPayment: undefined)
updatePaymentStatus(paymentId, tenantId, status, metadata) ==
  IF /\ paymentId \in 1..Len(payments)
     /\ payments[paymentId].tenantId = tenantId
  THEN LET updated == [payments[paymentId] EXCEPT
                         !.status = status,
                         !.metadata = metadata,
                         !.updatedAt = NewDate]
       IN [table |-> [payments EXCEPT ![paymentId] = updated],
           updatedPayment |-> updated]
  ELSE [table |-> payments, updatedPayment |-> NoPayment]

\* select ... where tenant_id order by created_at desc
getPayments(tenantId) ==
  {i \in 1..Len(payments) : payments[i].tenantId = tenantId}

\* payments.find(pred): the first row in that order, the newest (0: undefined)
Newest(rows) ==
  IF rows = {} THEN 0 ELSE CHOOSE i \in rows : \A j \in rows : j <= i

\* the payment request returns: its locals are gone
PayReturn(p, res) ==
  /\ payPc' = [payPc EXCEPT ![p] = "idle"]
  /\ payLocal' = [payLocal EXCEPT ![p] = NoLocal]
  /\ reply' = [reply EXCEPT ![p] = res]

\* POST /payments: any status, method, intent id and charge id of the schema
PostPayments(p, t, st, body) ==
  /\ payPc[p] = "idle"
  /\ Len(payments) + Cardinality(Inserting) < MaxPayments
  /\ IF st \notin PaymentStatuses
     THEN /\ payments' = payments
          /\ reply' = [reply EXCEPT ![p] = Reply("POST /payments", 400,
                                                 NoPayment)]
     ELSE /\ payments' = createPayment(
                           [tenantId |-> t, status |-> st,
                            method |-> body.method,
                            paymentIntentId |-> body.paymentIntentId,
                            chargeId |-> body.chargeId])
          /\ reply' = [reply EXCEPT ![p] =
               Reply("POST /payments", 200, payments'[Len(payments')])]
  /\ UNCHANGED <<stripeIntents, stripeRefunds, payPc, payLocal, ledgerVars,
                 intentStatus, hookVars>>

\* PUT /payments/:paymentId/status: one update statement
PutPaymentStatus(p, t, paymentId, st, md) ==
  /\ payPc[p] = "idle"
  /\ IF st \notin PaymentStatuses \/ paymentId = 0
     THEN /\ payments' = payments
          /\ reply' = [reply EXCEPT ![p] =
               Reply("PUT /payments/status", 400, NoPayment)]
     ELSE LET done == updatePaymentStatus(paymentId, t, st, md)
          IN /\ payments' = done.table
             /\ reply' = [reply EXCEPT ![p] =
                  Reply("PUT /payments/status", 200, done.updatedPayment)]
  /\ UNCHANGED <<stripeIntents, stripeRefunds, payPc, payLocal, ledgerVars,
                 intentStatus, hookVars>>

\* POST /confirm-payment, up to the read: the status, the charge id and the
\* failure reason come from the request body
ConfirmFind(p, t, pi, st, ch, fr) ==
  /\ payPc[p] = "idle"
  /\ LET found == Newest({i \in getPayments(t) :
                            payments[i].paymentIntentId = pi})
         status == IF fr # "" THEN "failed"
                   ELSE IF st = "" THEN "completed" ELSE st
     IN IF pi = 0
        THEN PayReturn(p, Reply("POST /confirm-payment", 400, NoPayment))
        ELSE IF found = 0
        THEN PayReturn(p, Reply("POST /confirm-payment", 404, NoPayment))
        ELSE /\ payPc' = [payPc EXCEPT ![p] = "confirm"]
             /\ payLocal' = [payLocal EXCEPT ![p] =
                  [NoLocal EXCEPT !.tenantId = t,
                                  !.payment = payments[found],
                                  !.status = status,
                                  !.metadata = Metadata(status, ch, fr, 0)]]
             /\ reply' = [reply EXCEPT ![p] = NoReply]
  /\ UNCHANGED <<payments, stripeIntents, stripeRefunds, ledgerVars,
                 intentStatus, hookVars>>

\* POST /confirm-payment, the write: updateData goes to the metadata column;
\* a status outside the enum is an error of the statement, 500
ConfirmUpdate(p) ==
  /\ payPc[p] = "confirm"
  /\ IF payLocal[p].status \notin PaymentStatuses
     THEN /\ payments' = payments
          /\ PayReturn(p, Reply("POST /confirm-payment", 500, NoPayment))
     ELSE LET done == updatePaymentStatus(payLocal[p].payment.id,
                                          payLocal[p].tenantId,
                                          payLocal[p].status,
                                          payLocal[p].metadata)
          IN /\ payments' = done.table
             /\ PayReturn(p, Reply("POST /confirm-payment", 200,
                                   done.updatedPayment))
  /\ UNCHANGED <<stripeIntents, stripeRefunds, ledgerVars,
                 intentStatus, hookVars>>

\* mutant: the pending row is inserted before the gateway is called
CreateIntentStartInsertsFirst(p, t, amount) ==
  /\ payPc[p] = "idle"
  /\ IF amount.v <= 0
     THEN /\ payments' = payments
          /\ PayReturn(p, Reply("POST /create-payment-intent", 400,
                                NoPayment))
     ELSE /\ Len(payments) + Cardinality(Inserting) < MaxPayments
          /\ payments' = createPayment([tenantId |-> t, status |-> "pending",
                                        method |-> "card",
                                        paymentIntentId |-> 0,
                                        chargeId |-> 0])
          /\ payPc' = [payPc EXCEPT ![p] = "intent"]
          /\ payLocal' = [payLocal EXCEPT ![p] =
               [NoLocal EXCEPT !.tenantId = t, !.amount = amount]]
          /\ reply' = [reply EXCEPT ![p] = NoReply]
  /\ UNCHANGED <<stripeIntents, stripeRefunds, ledgerVars,
                 intentStatus, hookVars>>

\* POST /create-payment-intent, up to the gateway call
CreateIntentStart(p, t, amount) ==
  /\ payPc[p] = "idle"
  /\ IF amount.v <= 0
     THEN PayReturn(p, Reply("POST /create-payment-intent", 400, NoPayment))
     ELSE /\ Len(payments) + Cardinality(Inserting) < MaxPayments
          /\ payPc' = [payPc EXCEPT ![p] = "intent"]
          /\ payLocal' = [payLocal EXCEPT ![p] =
               [NoLocal EXCEPT !.tenantId = t, !.amount = amount]]
          /\ reply' = [reply EXCEPT ![p] = NoReply]
  /\ UNCHANGED <<payments, stripeIntents, stripeRefunds, ledgerVars,
                 intentStatus, hookVars>>

\* stripe.paymentIntents.create returns a new intent
CreateIntentGateway(p) ==
  /\ payPc[p] = "intent"
  /\ stripeIntents < MaxIntents
  /\ stripeIntents' = stripeIntents + 1
  /\ intentStatus' = [intentStatus EXCEPT ![stripeIntents + 1] =
                        "requires_payment_method"]
  /\ payLocal' = [payLocal EXCEPT ![p].paymentIntent = stripeIntents + 1]
  /\ payPc' = [payPc EXCEPT ![p] = "insert"]
  /\ UNCHANGED <<payments, stripeRefunds, reply, ledgerVars, hookVars>>

\* storage.createPayment(paymentData): pending, card, the intent's id
CreateIntentInsert(p) ==
  /\ payPc[p] = "insert"
  /\ IF payLocal[p].amount.type = "number"
     THEN /\ payments' = createPayment(
                 [tenantId |-> payLocal[p].tenantId,
                  status |-> "pending", method |-> "card",
                  paymentIntentId |-> payLocal[p].paymentIntent,
                  chargeId |-> 0])
          /\ PayReturn(p, Reply("POST /create-payment-intent", 200,
                                payments'[Len(payments')]))
     \* amount.toFixed is not a function: TypeError, caught, 500
     ELSE /\ payments' = payments
          /\ PayReturn(p, Reply("POST /create-payment-intent", 500,
                                NoPayment))
  /\ UNCHANGED <<stripeIntents, stripeRefunds, ledgerVars,
                 intentStatus, hookVars>>

\* mutant: the status of the payment is not looked at
RefundFindAnyStatus(p, t, paymentId) ==
  /\ payPc[p] = "idle"
  /\ LET found == Newest({i \in getPayments(t) : payments[i].id = paymentId})
     IN IF paymentId = 0
        THEN PayReturn(p, Refuse("POST /refund-payment", 400,
                                 "Payment ID is required"))
        ELSE IF found = 0
        THEN PayReturn(p, Refuse("POST /refund-payment", 404,
                                 "Payment not found"))
        ELSE IF payments[found].chargeId = 0
        THEN PayReturn(p, Refuse("POST /refund-payment", 400,
                                 "No charge ID found for refund"))
        ELSE /\ payPc' = [payPc EXCEPT ![p] = "refund"]
             /\ payLocal' = [payLocal EXCEPT ![p] =
                  [NoLocal EXCEPT !.tenantId = t,
                                  !.payment = payments[found]]]
             /\ reply' = [reply EXCEPT ![p] = NoReply]
  /\ UNCHANGED <<payments, stripeIntents, stripeRefunds, ledgerVars,
                 intentStatus, hookVars>>

\* POST /refund-payment, up to the gateway call
RefundFind(p, t, paymentId) ==
  /\ payPc[p] = "idle"
  /\ LET found == Newest({i \in getPayments(t) : payments[i].id = paymentId})
     IN IF paymentId = 0
        THEN PayReturn(p, Refuse("POST /refund-payment", 400,
                                 "Payment ID is required"))
        ELSE IF found = 0
        THEN PayReturn(p, Refuse("POST /refund-payment", 404,
                                 "Payment not found"))
        ELSE IF payments[found].status # "completed"
        THEN PayReturn(p, Refuse("POST /refund-payment", 400,
                                 "Can only refund completed payments"))
        ELSE IF payments[found].chargeId = 0
        THEN PayReturn(p, Refuse("POST /refund-payment", 400,
                                 "No charge ID found for refund"))
        ELSE /\ payPc' = [payPc EXCEPT ![p] = "refund"]
             /\ payLocal' = [payLocal EXCEPT ![p] =
                  [NoLocal EXCEPT !.tenantId = t,
                                  !.payment = payments[found]]]
             /\ reply' = [reply EXCEPT ![p] = NoReply]
  /\ UNCHANGED <<payments, stripeIntents, stripeRefunds, ledgerVars,
                 intentStatus, hookVars>>

\* stripe.refunds.create({charge}) returns a new refund
RefundGateway(p) ==
  /\ payPc[p] = "refund"
  /\ Len(stripeRefunds) < MaxRefunds
  /\ stripeRefunds' = Append(stripeRefunds, payLocal[p].payment.chargeId)
  /\ payLocal' = [payLocal EXCEPT ![p].refund = Len(stripeRefunds) + 1]
  /\ payPc' = [payPc EXCEPT ![p] = "mark"]
  /\ UNCHANGED <<payments, stripeIntents, reply, ledgerVars,
                 intentStatus, hookVars>>

\* storage.updatePaymentStatus(payment.id, tenantId, "refunded", {refundId..})
RefundUpdate(p) ==
  /\ payPc[p] = "mark"
  /\ LET done == updatePaymentStatus(payLocal[p].payment.id,
                                     payLocal[p].tenantId, "refunded",
                                     Metadata("", 0, "", payLocal[p].refund))
     IN /\ payments' = done.table
        /\ PayReturn(p, Reply("POST /refund-payment", 200, NoPayment))
  /\ UNCHANGED <<stripeIntents, stripeRefunds, ledgerVars,
                 intentStatus, hookVars>>

\* the gateway call throws (declined, unreachable, timed out): catch, 500
PayGatewayFail(p) ==
  /\ payPc[p] \in {"intent", "refund"}
  /\ PayReturn(p, Reply(IF payPc[p] = "intent"
                        THEN "POST /create-payment-intent"
                        ELSE "POST /refund-payment", 500, NoPayment))
  /\ UNCHANGED <<payments, stripeIntents, stripeRefunds, ledgerVars,
                 intentStatus, hookVars>>

\* the write statement throws: catch, 500
PayStoreFail(p) ==
  /\ payPc[p] \in {"confirm", "insert", "mark"}
  /\ PayReturn(p, Reply(CASE payPc[p] = "confirm" -> "POST /confirm-payment"
                          [] payPc[p] = "insert" ->
                               "POST /create-payment-intent"
                          [] OTHER -> "POST /refund-payment", 500, NoPayment))
  /\ UNCHANGED <<payments, stripeIntents, stripeRefunds, ledgerVars,
                 intentStatus, hookVars>>

\* the gateway's side of an intent: the customer pays, is declined, cancels
IntentStatuses ==
  {"requires_payment_method", "processing", "succeeded", "canceled"}
GatewayAdvance(i, st) ==
  /\ intentStatus[i] \in {"requires_payment_method", "processing"}
  /\ st # intentStatus[i]
  /\ intentStatus' = [intentStatus EXCEPT ![i] = st]
  /\ UNCHANGED <<payments, stripeIntents, stripeRefunds, payPc, payLocal,
                 reply, ledgerVars, hookVars>>

\* --------------------------------------------------------------- webhooks
\* the gateway emits an event about intent i (0: about something else),
\* carrying the tenant id of the intent's metadata ("": none)
EventTypes == {"payment_intent.succeeded", "payment_intent.payment_failed",
               "customer.created"}
GatewayEmit(i, type, t) ==
  /\ Len(gatewayEvents) < MaxEvents
  /\ IF type = "customer.created" THEN i = 0 /\ t = "" ELSE i > 0
  /\ gatewayEvents' = Append(gatewayEvents,
       [type |-> type, intent |-> i, tenantId |-> t, deliveries |-> 0])
       \* deliveries: how often the gateway has sent it
  /\ UNCHANGED <<payments, stripeIntents, stripeRefunds, payPc, payLocal,
                 reply, ledgerVars, intentStatus, webhookEvents, applied>>

\* mutant: the row is born processed
NewWebhookEventProcessed(eventId, eventType) ==
  [eventId |-> eventId, eventType |-> eventType, processed |-> TRUE]

\* a webhook_events row as the insert leaves it: processed defaults to false
NewWebhookEvent(eventId, eventType) ==
  [eventId |-> eventId, eventType |-> eventType, processed |-> FALSE]
\* the row of an event id (event_id is unique), 0 if it was never seen
WebhookEventRow(eventId) ==
  IF \E k \in 1..Len(webhookEvents) : webhookEvents[k].eventId = eventId
  THEN CHOOSE k \in 1..Len(webhookEvents) :
         webhookEvents[k].eventId = eventId
  ELSE 0
HookReply(status, message) ==
  [route |-> "POST /webhook", status |-> status, payment |-> NoPayment,
   message |-> message]

\* the deliveries the gateway has made of its first k events
RECURSIVE Deliveries(_)
Deliveries(k) ==
  IF k = 0 THEN 0 ELSE gatewayEvents[k].deliveries + Deliveries(k - 1)

\* mutant: the event's row is written before the signature is looked at
HookReceiveInsertsFirst(p, e, signatureOk) ==
  /\ payPc[p] = "idle"
  /\ e \in 1..Len(gatewayEvents)
  /\ webhookEvents' =
       IF WebhookEventRow(e) = 0
       THEN Append(webhookEvents, NewWebhookEvent(e, gatewayEvents[e].type))
       ELSE webhookEvents
  /\ IF signatureOk
     THEN /\ Deliveries(Len(gatewayEvents)) < MaxDeliveries
          /\ gatewayEvents' = [gatewayEvents EXCEPT ![e].deliveries = @ + 1]
          /\ payPc' = [payPc EXCEPT ![p] = "hookLookup"]
          /\ payLocal' = [payLocal EXCEPT ![p] = [NoLocal EXCEPT !.event = e]]
          /\ reply' = [reply EXCEPT ![p] = NoReply]
     ELSE /\ gatewayEvents' = gatewayEvents
          /\ PayReturn(p, HookReply(401, "Unauthenticated"))
  /\ UNCHANGED <<payments, stripeIntents, stripeRefunds, ledgerVars,
                 intentStatus, applied>>

\* handleWebhookEvent step 1: the signature is verified before anything else
HookReceive(p, e, signatureOk) ==
  /\ payPc[p] = "idle"
  /\ e \in 1..Len(gatewayEvents)
  /\ IF signatureOk
     THEN /\ Deliveries(Len(gatewayEvents)) < MaxDeliveries
          /\ gatewayEvents' = [gatewayEvents EXCEPT ![e].deliveries = @ + 1]
          /\ payPc' = [payPc EXCEPT ![p] = "hookLookup"]
          /\ payLocal' = [payLocal EXCEPT ![p] = [NoLocal EXCEPT !.event = e]]
          /\ reply' = [reply EXCEPT ![p] = NoReply]
     ELSE /\ gatewayEvents' = gatewayEvents
          /\ PayReturn(p, HookReply(401, "Unauthenticated"))
  /\ UNCHANGED <<payments, stripeIntents, stripeRefunds, ledgerVars,
                 intentStatus, webhookEvents, applied>>

\* mutant: a processed event is dispatched like any other
HookLookupAlwaysDispatch(p) ==
  /\ payPc[p] = "hookLookup"
  /\ LET e == payLocal[p].event
         k == WebhookEventRow(e)
     IN webhookEvents' =
          IF k = 0
          THEN Append(webhookEvents,
                      NewWebhookEvent(e, gatewayEvents[e].type))
          ELSE webhookEvents
  /\ payPc' = [payPc EXCEPT ![p] = "hookDispatch"]
  /\ UNCHANGED <<payLocal, reply>>
  /\ UNCHANGED <<payments, stripeIntents, stripeRefunds, ledgerVars,
                 intentStatus, applied, gatewayEvents>>

\* steps 2 and 3: an event already processed is skipped; an event never seen
\* gets its row, processed = false, before the dispatch
HookLookup(p) ==
  /\ payPc[p] = "hookLookup"
  /\ LET e == payLocal[p].event
         k == WebhookEventRow(e)
     IN IF k # 0 /\ webhookEvents[k].processed
        THEN /\ webhookEvents' = webhookEvents
             /\ PayReturn(p, HookReply(200, "skipped"))
        ELSE /\ webhookEvents' =
                  IF k = 0
                  THEN Append(webhookEvents,
                              NewWebhookEvent(e, gatewayEvents[e].type))
                  ELSE webhookEvents
             /\ payPc' = [payPc EXCEPT ![p] = "hookDispatch"]
             /\ UNCHANGED <<payLocal, reply>>
  /\ UNCHANGED <<payments, stripeIntents, stripeRefunds, ledgerVars,
                 intentStatus, applied, gatewayEvents>>

\* mutant: the payment is looked up by intent id alone
HookPaymentAnyTenant(e) ==
  Newest({i \in 1..Len(payments) :
            /\ gatewayEvents[e].intent # 0
            /\ payments[i].paymentIntentId = gatewayEvents[e].intent})

\* the payment an event is about: by intent id, within the event's tenant
HookPayment(e) ==
  Newest({i \in getPayments(gatewayEvents[e].tenantId) :
            /\ gatewayEvents[e].intent # 0
            /\ payments[i].paymentIntentId = gatewayEvents[e].intent})

\* step 4: the dispatch. Succeeded and failed events update the payment and
\* capture the charge id or the failure reason; no payment, or another event
\* type, is a no-op
HookDispatch(p) ==
  /\ payPc[p] = "hookDispatch"
  /\ LET e == payLocal[p].event
         type == gatewayEvents[e].type
         i == HookPayment(e)
     IN IF type \in {"payment_intent.succeeded",
                     "payment_intent.payment_failed"} /\ i # 0
        THEN /\ payments' = [payments EXCEPT ![i] =
                  IF type = "payment_intent.succeeded"
                  THEN [@ EXCEPT !.status = "completed",
                                 !.chargeId = gatewayEvents[e].intent]
                  ELSE [@ EXCEPT !.status = "failed",
                                 !.metadata = Metadata("", 0,
                                                       "card_declined", 0)]]
             /\ applied' = [applied EXCEPT ![e] = @ + 1]
             /\ payLocal' = [payLocal EXCEPT ![p].payment = payments'[i]]
        ELSE UNCHANGED <<payments, applied, payLocal>>
  /\ payPc' = [payPc EXCEPT ![p] = "hookMark"]
  /\ UNCHANGED <<stripeIntents, stripeRefunds, reply, ledgerVars,
                 intentStatus, webhookEvents, gatewayEvents>>

\* step 5: the dispatch completed, the event is marked processed
HookMark(p) ==
  /\ payPc[p] = "hookMark"
  /\ webhookEvents' =
       [webhookEvents EXCEPT ![WebhookEventRow(payLocal[p].event)].processed =
          TRUE]
  /\ PayReturn(p, HookReply(200, "processed"))
  /\ UNCHANGED <<payments, stripeIntents, stripeRefunds, ledgerVars,
                 intentStatus, applied, gatewayEvents>>

\* the dispatch throws: the error goes to the gateway, the row stays
\* processed = false
HookDispatchFail(p) ==
  /\ payPc[p] = "hookDispatch"
  /\ PayReturn(p, HookReply(500, "dispatch failed"))
  /\ UNCHANGED <<payments, stripeIntents, stripeRefunds, ledgerVars,
                 intentStatus, hookVars>>

\* the handler fails or the process dies after the payment was updated and
\* before the event is marked
HookMarkFail(p) ==
  /\ payPc[p] = "hookMark"
  /\ PayReturn(p, HookReply(500, "not marked"))
  /\ UNCHANGED <<payments, stripeIntents, stripeRefunds, ledgerVars,
                 intentStatus, hookVars>>

\* ------------------------------------------------------------ specification
\* requests P, of tenants T, opening accounts with statuses S, charging
\* amounts A, one after the other or interleaved
TxNext(P, T, A) ==
  \/ \E p \in P, t \in T, c \in Customers, a \in A :
       TxNotFound(p, t, c, a)
  \/ \E p \in P, t \in T, c \in Customers, a \in A :
       TxSelect(p, t, c, a)
  \/ \E p \in P : TxInsert(p)
  \/ \E p \in P : TxLimitExceeded(p)
  \/ \E p \in P : TxUpdate(p)
  \/ \E p \in P : TxCommit(p)
  \/ \E p \in P : TxStoreFail(p)

CreditNext(P, T, S) ==
  \E p \in P, t \in T, c \in CustomerIds, lim \in LimitInputs,
     bal \in OpeningBalances, st \in S :
    PostCredit(p, t, c, lim, bal, st)

BalanceNext(P, T) ==
  \E p \in P, t \in T, id \in 1..MaxCredits, b \in BalanceInputs :
    PutCreditBalance(p, t, id, b)

\* one request at a time, two tenants, charges of one cent
Next ==
  \/ CreditNext({"p1"}, Tenants, CreditStatuses)
  \/ BalanceNext({"p1"}, Tenants)
  \/ TxNext({"p1"}, Tenants, {Cents(1)})
Spec == Init /\ [][Next]_vars

\* one request at a time, one tenant, every amount
MoneyNext ==
  \/ CreditNext({"p1"}, {"t1"}, {"active"})
  \/ BalanceNext({"p1"}, {"t1"})
  \/ TxNext({"p1"}, {"t1"}, WideAmounts)
MoneySpec == Init /\ [][MoneyNext]_vars

\* payment requests P of tenants T
PayNext(P, T) ==
  \/ \E p \in P, t \in T, st \in StatusInputs, body \in PaymentInputs :
       PostPayments(p, t, st, body)
  \/ \E p \in P, t \in T, id \in PaymentIds, st \in StatusInputs,
        md \in MetadataInputs :
       PutPaymentStatus(p, t, id, st, md)
  \/ \E p \in P, t \in T, pi \in IntentInputs, st \in ConfirmStatuses,
        ch \in ChargeInputs, fr \in ReasonInputs :
       ConfirmFind(p, t, pi, st, ch, fr)
  \/ \E p \in P : ConfirmUpdate(p)
  \/ \E p \in P, t \in T, amount \in AmountInputs :
       CreateIntentStart(p, t, amount)
  \/ \E p \in P : CreateIntentGateway(p)
  \/ \E p \in P : CreateIntentInsert(p)
  \/ \E p \in P, t \in T, id \in PaymentIds : RefundFind(p, t, id)
  \/ \E p \in P : RefundGateway(p)
  \/ \E p \in P : RefundUpdate(p)
  \/ \E p \in P : PayGatewayFail(p)
  \/ \E p \in P : PayStoreFail(p)

\* the routes of the payment flow, for requests P of tenants T
IntentNext(P, T) ==
  \/ \E p \in P, t \in T, amount \in AmountInputs :
       CreateIntentStart(p, t, amount)
  \/ \E p \in P : CreateIntentGateway(p)
  \/ \E p \in P : CreateIntentInsert(p)
ConfirmNext(P, T) ==
  \/ \E p \in P, t \in T, pi \in IntentInputs, st \in ConfirmStatuses,
        ch \in ChargeInputs, fr \in ReasonInputs :
       ConfirmFind(p, t, pi, st, ch, fr)
  \/ \E p \in P : ConfirmUpdate(p)
RefundNext(P, T) ==
  \/ \E p \in P, t \in T, id \in PaymentIds : RefundFind(p, t, id)
  \/ \E p \in P : RefundGateway(p)
  \/ \E p \in P : RefundUpdate(p)
FailNext(P) ==
  \/ \E p \in P : PayGatewayFail(p)
  \/ \E p \in P : PayStoreFail(p)
GatewayNext ==
  \E i \in 1..MaxIntents, st \in IntentStatuses : GatewayAdvance(i, st)

\* card payments of one tenant, one request at a time: the intent is created,
\* the gateway moves it, the client confirms
ConfirmSpecNext ==
  \/ IntentNext({"p1"}, {"t1"})
  \/ GatewayNext
  \/ ConfirmNext({"p1"}, {"t1"})
  \/ FailNext({"p1"})
ConfirmSpec == Init /\ [][ConfirmSpecNext]_vars

\* concurrent requests for payment intents, two tenants
IntentSpecNext ==
  \/ IntentNext(Procs, Tenants)
  \/ FailNext(Procs)
IntentSpec == Init /\ [][IntentSpecNext]_vars

\* payments recorded by hand and refunded, one tenant, one request at a time
RefundSpecNext ==
  \/ \E t \in {"t1"}, st \in StatusInputs, body \in PaymentInputs :
       PostPayments("p1", t, st, body)
  \/ RefundNext({"p1"}, {"t1"})
  \/ FailNext({"p1"})
RefundSpec == Init /\ [][RefundSpecNext]_vars

\* completed card payments of one tenant, refund calls of two requests
\* interleaved, gateway and store failures
RefundBodies ==
  {[method |-> "card", paymentIntentId |-> 1, chargeId |-> ch] : ch \in 1..2}
RefundConcNext ==
  \/ \E body \in RefundBodies :
       PostPayments("p1", "t1", "completed", body)
  \/ RefundNext(Procs, {"t1"})
  \/ FailNext(Procs)
RefundConcSpec == Init /\ [][RefundConcNext]_vars

\* the gateway's events and their deliveries to handlers P, tenants T
EmitNext(I, T) ==
  \E i \in I \cup {0}, type \in EventTypes, t \in T :
    GatewayEmit(i, type, t)
HookNext(P) ==
  \/ \E p \in P, e \in 1..MaxEvents, signatureOk \in BOOLEAN :
       HookReceive(p, e, signatureOk)
  \/ \E p \in P : HookLookup(p)
  \/ \E p \in P : HookDispatch(p)
  \/ \E p \in P : HookMark(p)
  \/ \E p \in P : HookDispatchFail(p)
  \/ \E p \in P : HookMarkFail(p)

\* a card payment of one tenant, the gateway's events about it, and their
\* deliveries to handlers P
HookSpecNext(P) ==
  \/ PostPayments("p1", "t1", "pending",
                  [method |-> "card", paymentIntentId |-> 1, chargeId |-> 0])
  \/ EmitNext({1}, {"t1"})
  \/ HookNext(P)
\* one delivery at a time
HookSpec == Init /\ [][HookSpecNext({"p1"})]_vars
\* one delivery at a time; events that name no tenant too
HookQuietNext ==
  \/ PostPayments("p1", "t1", "pending",
                  [method |-> "card", paymentIntentId |-> 1, chargeId |-> 0])
  \/ EmitNext({1}, {"t1", ""})
  \/ HookNext({"p1"})
HookQuietSpec == Init /\ [][HookQuietNext]_vars
\* concurrent deliveries
HookConcSpec == Init /\ [][HookSpecNext(Procs)]_vars

\* payment requests of one tenant, one at a time
PaySpec == Init /\ [][PayNext({"p1"}, {"t1"})]_vars

\* one request at a time, two tenants, active accounts, charges of one cent
TenantNext ==
  \/ CreditNext({"p1"}, Tenants, {"active"})
  \/ BalanceNext({"p1"}, Tenants)
  \/ TxNext({"p1"}, Tenants, {Cents(1)})
TenantSpec == Init /\ [][TenantNext]_vars

\* accounts of every status in two tenants, charges of one cent, one request
\* at a time, no balance override
FrameStatuses == CreditStatuses \cup {"frozen"}
FrameNext ==
  \/ CreditNext({"p1"}, Tenants, FrameStatuses)
  \/ TxNext({"p1"}, Tenants, {Cents(1)})
FrameSpec == Init /\ [][FrameNext]_vars

\* payments of two tenants recorded by hand, then updated, confirmed and
\* refunded with every payment id, one request at a time
IsolationStatuses == {"pending", "completed"}
IsolationBodies == {[method |-> "card", paymentIntentId |-> 1, chargeId |-> 1]}
IsolationBalances == {Str(5)}
PayIsolationNext ==
  \/ \E t \in Tenants, st \in IsolationStatuses, body \in IsolationBodies :
       PostPayments("p1", t, st, body)
  \/ \E t \in Tenants, id \in PaymentIds :
       PutPaymentStatus("p1", t, id, "failed", NullMetadata)
  \/ \E t \in Tenants : ConfirmFind("p1", t, 1, "", 0, "")
  \/ ConfirmUpdate("p1")
  \/ RefundNext({"p1"}, Tenants)
  \/ FailNext({"p1"})
\* the ledger and the payments share no table and no handler: a run works on
\* the ledger of the two tenants or on their payments
LedgerUntouched ==
  /\ credits = <<>> /\ creditTransactions = <<>>
  /\ \A p \in Procs : pc[p] = "idle" /\ result[p] = NoResult
PaymentsUntouched ==
  /\ payments = <<>>
  /\ \A p \in Procs : payPc[p] = "idle" /\ reply[p] = NoReply
LedgerIsolationNext ==
  \/ CreditNext({"p1"}, Tenants, {"active"})
  \/ \E t \in Tenants, id \in 1..MaxCredits, b \in IsolationBalances :
       PutCreditBalance("p1", t, id, b)
  \/ TxNext({"p1"}, Tenants, {Cents(1)})
IsolationNext ==
  \/ PaymentsUntouched /\ LedgerIsolationNext
  \/ LedgerUntouched /\ PayIsolationNext
IsolationSpec == Init /\ [][IsolationNext]_vars

\* payments of two tenants recorded by hand; their status is set by hand, by
\* confirmation and by refund, one request at a time
StatusUpdates == {"failed"}
StatusNext ==
  \/ \E t \in Tenants, st \in IsolationStatuses, body \in IsolationBodies :
       PostPayments("p1", t, st, body)
  \/ \E t \in Tenants, id \in PaymentIds, st \in StatusUpdates,
        md \in MetadataInputs :
       PutPaymentStatus("p1", t, id, st, md)
  \/ \E t \in Tenants : ConfirmFind("p1", t, 1, "", 0, "")
  \/ ConfirmUpdate("p1")
  \/ RefundNext({"p1"}, Tenants)
  \/ FailNext({"p1"})
StatusSpec == Init /\ [][StatusNext]_vars

\* ------------------------------------------------ authorization middleware
\* users: u1 belongs to tenant t1, u2 to tenant t2, anon has no session
Users == {"u1", "u2", "anon"}
getUserTenants(userId) ==
  CASE userId = "u1" -> {"t1"} [] userId = "u2" -> {"t2"} [] OTHER -> {}
\* the session check: the request carries an authenticated user
isAuthenticated(userId) == userId # "anon"
\* mutant: any tenant member passes, whatever the tenant of the route
requireTenantAccessAnyMember(userId, tenantId) == getUserTenants(userId) # {}
\* userTenants.some(ut => ut.tenantId === tenantId)
requireTenantAccess(userId, tenantId) == tenantId \in getUserTenants(userId)

\* app.use('/api/tenants/:tenantId', isAuthenticated, requireTenantAccess,
\* tenantRouter): a ledger route's handler runs after both have passed
LedgerRoute(p, userId, tenantId, handler) ==
  IF isAuthenticated(userId) /\ requireTenantAccess(userId, tenantId)
  THEN handler
  ELSE /\ pc[p] = "idle"
       /\ result' = [result EXCEPT ![p] =
            Response("/api/tenants/:tenantId",
                     IF isAuthenticated(userId) THEN 403 ELSE 401)]
       /\ UNCHANGED <<credits, creditTransactions, pc, req, creditAccount,
                      newTransaction, rowLock, solo, payVars>>
\* the same for a payment route
PaymentRoute(p, userId, tenantId, handler) ==
  IF isAuthenticated(userId) /\ requireTenantAccess(userId, tenantId)
  THEN handler
  ELSE /\ payPc[p] = "idle"
       /\ reply' = [reply EXCEPT ![p] =
            Reply("/api/tenants/:tenantId",
                  IF isAuthenticated(userId) THEN 403 ELSE 401, NoPayment)]
       /\ UNCHANGED <<payments, stripeIntents, stripeRefunds, payPc, payLocal,
                      ledgerVars, intentStatus, hookVars>>

\* a request of user userId to a ledger route of tenant tenantId arrives
LedgerRequest(p, userId, tenantId) ==
  \/ \E c \in Customers :
       LedgerRoute(p, userId, tenantId,
                   PostCredit(p, tenantId, c, Cents(MaxLimit), Str(0),
                              "active"))
  \/ \E c \in Customers :
       LedgerRoute(p, userId, tenantId,
                   TxNotFound(p, tenantId, c, Cents(1)))
  \/ \E c \in Customers :
       LedgerRoute(p, userId, tenantId, TxSelect(p, tenantId, c, Cents(1)))
  \/ \E id \in 1..MaxCredits :
       LedgerRoute(p, userId, tenantId,
                   PutCreditBalance(p, tenantId, id, Str(5)))
\* a request of user userId to a payment route of tenant tenantId arrives
PaymentRequest(p, userId, tenantId) ==
  \/ \E st \in IsolationStatuses, body \in IsolationBodies :
       PaymentRoute(p, userId, tenantId, PostPayments(p, tenantId, st, body))
  \/ \E id \in PaymentIds :
       PaymentRoute(p, userId, tenantId,
                    PutPaymentStatus(p, tenantId, id, "failed", NullMetadata))
  \/ PaymentRoute(p, userId, tenantId,
                  ConfirmFind(p, tenantId, 1, "", 0, ""))
  \/ \E id \in PaymentIds :
       PaymentRoute(p, userId, tenantId, RefundFind(p, tenantId, id))

\* requests to the routes of tenant t2 of its member, of the member of the
\* other tenant and without a session, one at a time, to the ledger or to the
\* payments
AccessNext ==
  \/ /\ PaymentsUntouched
     /\ \/ \E u \in Users : LedgerRequest("p1", u, "t2")
        \/ TxInsert("p1") \/ TxLimitExceeded("p1") \/ TxUpdate("p1")
        \/ TxCommit("p1") \/ TxStoreFail("p1")
  \/ /\ LedgerUntouched
     /\ \/ \E u \in Users : PaymentRequest("p1", u, "t2")
        \/ ConfirmUpdate("p1") \/ RefundGateway("p1") \/ RefundUpdate("p1")
        \/ FailNext({"p1"})
AccessSpec == Init /\ [][AccessNext]_vars

\* two concurrent requests of one tenant, charges of whole cents, no override
ConcNext ==
  \/ CreditNext(Procs, {"t1"}, {"active"})
  \/ TxNext(Procs, {"t1"}, CentAmounts)
ConcSpec == Init /\ [][ConcNext]_vars

\* ------------------------------------------------------------------ claims
\* x <= y on decimals: false when either is no number
DecLeq(x, y) == x.k = "num" /\ y.k = "num" /\ x.m <= y.m
WithinLimit(row) == DecLeq(row.balance, row.limitAmount)
HasAccount(t, c) ==
  \E i \in 1..Len(credits) :
    credits[i].tenantId = t /\ credits[i].customerId = c
\* request p returns in this step
Returns(p) == pc[p] # "idle" /\ pc'[p] = "idle"
Tables == <<credits, creditTransactions>>

\* C1: a charge on an account whose balance is within its limit leaves the
\* balance within the limit when it returns success; a charge whose amount
\* added to the balance exceeds the limit does not succeed; a charge that
\* does not succeed leaves the balance and the transaction rows as they were.
C1_ChargeKeepsLimit ==
  [][\A p \in Procs :
       LET account == credits[creditAccount[p].id]
           amount == req[p].amount
       IN (Returns(p) /\ WithinLimit(account)) =>
            /\ result'[p].status = 201 =>
                 WithinLimit(credits'[creditAccount[p].id])
            /\ (amount.k = "num" /\
                account.balance.m + amount.m > account.limitAmount.m) =>
                 result'[p].status # 201
            /\ result'[p].status # 201 => UNCHANGED Tables]_vars

\* C2: two charges run concurrently on one account, each within the limit
\* alone and over it together: when the second returns after the first has
\* committed, it fails with the limit error and the balance holds only the
\* first amount.
C2_ExactlyOneSucceeds ==
  [][\A p \in Procs : \A q \in Procs \ {p} :
       LET i == creditAccount[p].id
           b0 == creditAccount[p].balance.m
           lim == creditAccount[p].limitAmount.m
           ap == req[p].amount.m
           aq == result[q].amount.m
       IN (/\ Returns(p) /\ pc[p] \in {"check", "commit"}
           /\ result'[p].status \in {201, 400}
           /\ pc[q] = "idle" /\ result[q].status = 201
           /\ result[q].route = "POST /credit-transactions"
           /\ credits[i].balance.m = b0 + aq
           /\ b0 + ap <= lim /\ b0 + aq <= lim /\ b0 + ap + aq > lim)
          => /\ result'[p].status = 400
             /\ credits'[i].balance.m = b0 + aq]_vars

\* C3: a charge commits only if the balance it read is still the committed
\* balance (no other charge on the account committed after its read), and its
\* commit adds its amount to that balance.
C3_NoLostUpdate ==
  [][\A p \in Procs :
       LET i == creditAccount[p].id
       IN (Returns(p) /\ result'[p].status = 201) =>
            /\ credits[i].balance = creditAccount[p].balance
            /\ credits'[i].balance.m =
                 credits[i].balance.m + req[p].amount.m]_vars

\* C4: every active credit account has balance <= limit.
C4_ActiveWithinLimit ==
  \A i \in 1..Len(credits) :
    credits[i].status = "active" => WithinLimit(credits[i])

\* C5: creating an account for a (tenant, customer) pair that has one fails
\* with 409 and adds no row; no two credit accounts share a (tenant, customer)
\* pair.
C5_OneAccountPerCustomer ==
  /\ [][\A p \in Procs, t \in Tenants, c \in Customers, lim \in LimitInputs,
          bal \in OpeningBalances, st \in CreditStatuses :
          (PostCredit(p, t, c, lim, bal, st) /\ HasAccount(t, c)) =>
            (result'[p].status = 409 /\ credits' = credits)]_vars
  /\ [](\A i, j \in 1..Len(credits) :
          (/\ credits[i].tenantId = credits[j].tenantId
           /\ credits[i].customerId = credits[j].customerId) => i = j)

\* C6: while a charge is in flight, every step that does not return success
\* (the insert, the update, a store failure at any of them or at the commit)
\* leaves the credits and the transaction rows as they were before the call.
C6_StoreFailureLeavesNothing ==
  [][\A p \in Procs :
       (pc[p] # "idle" /\ ~(Returns(p) /\ result'[p].status = 201)) =>
         UNCHANGED Tables]_vars

\* a charge failed at its commit, after the insert and the balance update
C6_Witness ==
  /\ result["p1"].status = 500
  /\ result["p1"].failed = "commit"
  /\ Len(credits) > 0

\* C7: a charge that ran alone on an account succeeds exactly if balance +
\* amount <= limit in decimal arithmetic; on success the new balance is the
\* balance plus the amount (the amount as sent or as the row stores it); on
\* the limit error nothing changes and the message carries the balance, the
\* limit and the amount.
C7_SoloDecision ==
  [][\A p \in Procs :
       LET i == creditAccount[p].id
           account == credits[i]
           amount == req[p].amount
           fits == /\ amount.k = "num"
                   /\ account.balance.m + amount.m <= account.limitAmount.m
       IN (/\ solo[p] /\ Returns(p) /\ result'[p].status \in {201, 400}
           /\ account.balance.k = "num")
          => /\ result'[p].status = 201 <=> fits
             /\ result'[p].status = 201 =>
                  credits'[i].balance \in
                    {Str(account.balance.m + amount.m),
                     Str(account.balance.m + PgNumeric(amount).m)}
             /\ result'[p].status = 400 =>
                  /\ UNCHANGED Tables
                  /\ result'[p].current = account.balance
                  /\ result'[p].limit = account.limitAmount
                  /\ result'[p].requested \in {amount, PgNumeric(amount)}
     ]_vars

\* C8: a charge for a (tenant, customer) pair without a credit account in
\* that tenant returns 404, inserts no transaction row and changes no account.
C8_NoAccountNotFound ==
  [][\A p \in Procs, t \in Tenants, c \in Customers, a \in WideAmounts :
       (/\ ~HasAccount(t, c)
        /\ pc[p] = "idle"
        /\ TxNotFound(p, t, c, a) \/ TxSelect(p, t, c, a)) =>
         /\ result'[p].status = 404
         /\ pc'[p] = "idle" /\ newTransaction'[p] = NoTx
         /\ UNCHANGED Tables]_vars

\* the customer has an account, under the other tenant, and the charge got 404
C8_Witness ==
  /\ result["p1"].route = "POST /credit-transactions"
  /\ result["p1"].status = 404
  /\ Len(credits) > 0

LegalTransitions ==
  {<<"pending", "completed">>, <<"pending", "failed">>,
   <<"completed", "refunded">>}
C10_StatusTransitions ==
  [][\A i \in 1..Len(payments) :
       payments'[i].status # payments[i].status =>
         <<payments[i].status, payments'[i].status>> \in LegalTransitions]_vars

\* C11: a confirmation of a payment that is already completed, failed or
\* refunded writes nothing and returns the payment as it is.
TerminalStatuses == {"completed", "failed", "refunded"}
C11_ConfirmIdempotent ==
  [][\A p \in Procs :
       (/\ payPc[p] = "confirm"
        /\ payLocal[p].payment.status \in TerminalStatuses
        /\ ConfirmUpdate(p)) =>
         /\ payments' = payments
         /\ reply'[p].status = 200
         /\ reply'[p].payment = payments[payLocal[p].payment.id]]_vars

\* C12: a confirmation of a pending payment sets the status the gateway
\* reports for the intent: succeeded gives completed, requires_payment_method
\* and canceled give failed with a failure reason, anything else leaves the
\* payment pending.
C12_ConfirmFollowsGateway ==
  [][\A p \in Procs :
       (/\ payPc[p] = "confirm"
        /\ payLocal[p].payment.status = "pending"
        /\ ConfirmUpdate(p)) =>
         LET id == payLocal[p].payment.id
             gateway == intentStatus[payLocal[p].payment.paymentIntentId]
         IN /\ gateway = "succeeded" => payments'[id].status = "completed"
            /\ gateway \in {"requires_payment_method", "canceled"} =>
                 /\ payments'[id].status = "failed"
                 /\ payments'[id].metadata.failureReason # ""
            /\ gateway \in {"none", "processing"} =>
                 payments'[id].status = "pending"]_vars

\* C13: a confirmation that makes a card payment completed sets the payment's
\* chargeId in the same update.
C13_CompletedHoldsCharge ==
  [][\A p \in Procs :
       (payPc[p] = "confirm" /\ ConfirmUpdate(p)) =>
         LET id == payLocal[p].payment.id
         IN (/\ payments'[id].method = "card"
             /\ payments'[id].status = "completed") =>
              payments'[id].chargeId # 0]_vars

\* C14: a refund of a payment that is not completed is refused (400, only
\* completed payments can be refunded), and so is one of a completed payment
\* without a chargeId (400, no charge id); the call ends there: no refund is
\* created at the gateway and no payment changes.
C14_RefundRefused ==
  [][\A p \in Procs, t \in Tenants, id \in 1..MaxPayments :
       (/\ id \in 1..Len(payments)
        /\ payments[id].tenantId = t
        /\ (payments[id].status # "completed" \/ payments[id].chargeId = 0)
        /\ RefundFind(p, t, id)) =>
         /\ reply'[p] = Refuse("POST /refund-payment", 400,
                               IF payments[id].status # "completed"
                               THEN "Can only refund completed payments"
                               ELSE "No charge ID found for refund")
         /\ payPc'[p] = "idle"
         /\ UNCHANGED <<payments, stripeRefunds>>]_vars

\* a completed payment without a charge id was refused a refund
C14_Witness ==
  /\ reply["p1"].message = "No charge ID found for refund"
  /\ \E i \in 1..Len(payments) :
       payments[i].status = "completed" /\ payments[i].chargeId = 0

\* C15: a request for a payment intent whose gateway call fails ends with an
\* error and inserts nothing; a payment row is inserted only by a request
\* that holds the intent id the gateway returned to it.
C15_NoRowWithoutIntent ==
  [][/\ \A p \in Procs :
          (payPc[p] = "intent" /\ payPc'[p] = "idle") =>
            (payments' = payments /\ reply'[p].status = 500)
     /\ payments' # payments =>
          \E p \in Procs :
            /\ payPc[p] = "insert" /\ payPc'[p] = "idle"
            /\ payLocal[p].paymentIntent \in 1..stripeIntents
            /\ intentStatus[payLocal[p].paymentIntent] # "none"
            /\ Len(payments') = Len(payments) + 1
            /\ payments'[Len(payments')].paymentIntentId =
                 payLocal[p].paymentIntent
            /\ \A i \in 1..Len(payments) : payments'[i] = payments[i]]_vars

\* the gateway never returned an intent and the request ended with an error
C15_Witness ==
  /\ reply["p1"].route = "POST /create-payment-intent"
  /\ reply["p1"].status = 500
  /\ stripeIntents = 0
  /\ payments = <<>>

\* C16: a request for a payment intent with amount <= 0 gets 400 before any
\* gateway call or insert; one with amount > 0 calls the gateway once, and
\* after the gateway call succeeded the handler inserts exactly one payment:
\* pending, of the request's tenant, with the intent id the gateway returned.
C16_IntentThenOneRow ==
  [][\A p \in Procs :
       /\ \A t \in Tenants, amount \in AmountInputs :
            CreateIntentStart(p, t, amount) =>
              IF amount.v <= 0
              THEN /\ reply'[p].status = 400 /\ payPc'[p] = "idle"
                   /\ UNCHANGED <<payments, stripeIntents>>
              ELSE /\ payLocal'[p].tenantId = t
                   /\ payLocal'[p].paymentIntent = 0
                   /\ UNCHANGED <<payments, stripeIntents>>
       /\ CreateIntentGateway(p) =>
            /\ payLocal[p].paymentIntent = 0
            /\ stripeIntents' = stripeIntents + 1
            /\ payLocal'[p].paymentIntent = stripeIntents'
            /\ payLocal'[p].tenantId = payLocal[p].tenantId
            /\ payPc'[p] = "insert" /\ payments' = payments
       /\ CreateIntentInsert(p) =>
            /\ stripeIntents' = stripeIntents
            /\ Len(payments') = Len(payments) + 1
            /\ payments' = Append(payments, payments'[Len(payments')])
            /\ payments'[Len(payments')].status = "pending"
            /\ payments'[Len(payments')].tenantId = payLocal[p].tenantId
            /\ payments'[Len(payments')].paymentIntentId =
                 payLocal[p].paymentIntent
            /\ payLocal[p].paymentIntent \in 1..stripeIntents]_vars

\* the event has a row and the row says processed
Processed(e) ==
  /\ WebhookEventRow(e) # 0
  /\ webhookEvents[WebhookEventRow(e)].processed
\* the event is one whose dispatch updates a payment that exists
Mutating(e) ==
  /\ gatewayEvents[e].type # "customer.created"
  /\ HookPayment(e) # 0

\* C17: when an event's first delivery was processed in full, its dispatch
\* has updated the payment exactly once (if there is a payment to update);
\* from then on no delivery of that event changes a payment, and a delivery
\* that looks the event up answers 200 "skipped" without going to dispatch.
C17_RedeliverySkipped ==
  [][\A e \in 1..Len(gatewayEvents) :
       /\ Processed(e) => applied'[e] = applied[e] /\ Processed(e)'
       /\ \A p \in Procs :
            payLocal[p].event = e =>
              /\ (HookMark(p) /\ gatewayEvents[e].deliveries = 1) =>
                   /\ applied[e] = IF Mutating(e) THEN 1 ELSE 0
                   /\ Processed(e)'
              /\ (payPc[p] = "hookLookup" /\ Processed(e) /\ HookLookup(p)) =>
                   /\ reply'[p] = HookReply(200, "skipped")
                   /\ payPc'[p] = "idle"
                   /\ UNCHANGED <<payments, applied, webhookEvents>>]_vars

\* the second delivery of a succeeded event was skipped; the payment was
\* completed once
C17_Witness ==
  /\ reply["p1"] = HookReply(200, "skipped")
  /\ Len(gatewayEvents) >= 1
  /\ gatewayEvents[1].type = "payment_intent.succeeded"
  /\ gatewayEvents[1].deliveries = 2
  /\ applied[1] = 1
  /\ Len(payments) >= 1
  /\ payments[1].status = "completed"

\* C18: whatever the deliveries of an event id (concurrent, failed, cut off
\* between the payment update and the mark), its dispatch updates a payment
\* at most once.
C18_AtMostOnce ==
  \A e \in 1..MaxEvents : applied[e] <= 1

\* the payment row is what the event's dispatch writes
Dispatched(e, payment) ==
  IF gatewayEvents[e].type = "payment_intent.succeeded"
  THEN payment.status = "completed" /\ payment.chargeId # 0
  ELSE payment.status = "failed" /\ payment.metadata.failureReason # ""

\* C19: an event's row becomes processed only by the mark of a delivery whose
\* dispatch has completed, the payment update already committed; when the
\* dispatch fails the delivery answers with an error, the row stays
\* processed = false, and the next delivery that looks the event up goes on
\* to dispatch.
C19_ProcessedAfterDispatch ==
  [][\A e \in 1..Len(gatewayEvents) :
       /\ (~Processed(e) /\ Processed(e)') =>
            \E p \in Procs :
              /\ payPc[p] = "hookMark" /\ payLocal[p].event = e
              /\ payPc'[p] = "idle"
              /\ reply'[p] = HookReply(200, "processed")
              /\ payments' = payments
              /\ payLocal[p].payment # NoPayment =>
                   /\ applied[e] >= 1
                   /\ Dispatched(e, payLocal[p].payment)
       /\ \A p \in Procs :
            payLocal[p].event = e =>
              /\ HookDispatchFail(p) =>
                   /\ reply'[p].status = 500
                   /\ UNCHANGED <<payments, applied, webhookEvents>>
                   /\ ~Processed(e)
              /\ (payPc[p] = "hookLookup" /\ ~Processed(e)
                  /\ HookLookup(p)) =>
                   /\ payPc'[p] = "hookDispatch"
                   /\ WebhookEventRow(e)' # 0
                   /\ ~Processed(e)']_vars

\* the first delivery of a succeeded event failed in dispatch, the second
\* updated the payment and marked the event
C19_Witness ==
  /\ reply["p1"] = HookReply(200, "processed")
  /\ Len(gatewayEvents) >= 1
  /\ gatewayEvents[1].type = "payment_intent.succeeded"
  /\ gatewayEvents[1].deliveries = 2
  /\ Processed(1)
  /\ applied[1] = 1
  /\ Len(payments) >= 1
  /\ payments[1].status = "completed"

\* C20: the signature is verified first. A delivery whose signature does not
\* verify is answered 401 Unauthenticated in that step: no webhook_events row
\* is inserted, no payment is read or changed. The verification step writes
\* nothing for a good signature either, and a delivery that got past it is
\* never answered Unauthenticated.
C20_SignatureFirst ==
  [][\A p \in Procs :
       /\ \A e \in 1..Len(gatewayEvents) :
            HookReceive(p, e, FALSE) =>
              /\ reply'[p] = HookReply(401, "Unauthenticated")
              /\ payPc'[p] = "idle"
              /\ payLocal'[p].payment = NoPayment
              /\ UNCHANGED <<payments, webhookEvents, applied>>
       /\ (payPc[p] = "idle" /\ payPc'[p] = "hookLookup") =>
            UNCHANGED <<payments, webhookEvents, applied>>
       /\ payPc[p] \in {"hookLookup", "hookDispatch", "hookMark"} =>
            reply'[p].status # 401]_vars

\* a forged succeeded event for an existing pending payment was turned away
C20_Witness ==
  /\ reply["p1"] = HookReply(401, "Unauthenticated")
  /\ Len(gatewayEvents) >= 1
  /\ gatewayEvents[1].type = "payment_intent.succeeded"
  /\ webhookEvents = <<>>
  /\ Len(payments) >= 1
  /\ payments[1].status = "pending"
  /\ applied[1] = 0

\* an event there is nothing to do for
NoOpEvent(e) ==
  \/ gatewayEvents[e].type \notin {"payment_intent.succeeded",
                                   "payment_intent.payment_failed"}
  \/ gatewayEvents[e].tenantId = ""
  \/ ~\E i \in 1..Len(payments) :
        /\ payments[i].tenantId = gatewayEvents[e].tenantId
        /\ payments[i].paymentIntentId = gatewayEvents[e].intent

\* C21: the dispatch of a verified event of an unrecognized type, of an
\* event that names no tenant, or of an event whose intent matches no payment
\* of its tenant, changes no payment and does not fail; the delivery goes on
\* to the mark, which records the event as processed and answers 200.
C21_NoOpEventProcessed ==
  [][\A p \in Procs, e \in 1..Len(gatewayEvents) :
       payLocal[p].event = e =>
         /\ (HookDispatch(p) /\ NoOpEvent(e)) =>
              /\ UNCHANGED <<payments, applied, payLocal, reply>>
              /\ payPc'[p] = "hookMark"
         /\ (HookMark(p) /\ payLocal[p].payment = NoPayment) =>
              /\ reply'[p] = HookReply(200, "processed")
              /\ Processed(e)'
              /\ UNCHANGED <<payments, applied>>]_vars

\* a succeeded event that names no tenant was processed; the pending payment
\* with its intent id is as it was
C21_Witness ==
  /\ reply["p1"] = HookReply(200, "processed")
  /\ Len(gatewayEvents) >= 1
  /\ gatewayEvents[1].type = "payment_intent.succeeded"
  /\ gatewayEvents[1].tenantId = ""
  /\ gatewayEvents[1].deliveries = 1
  /\ Processed(1)
  /\ applied[1] = 0
  /\ Len(payments) >= 1
  /\ payments[1].status = "pending"
  /\ payments[1].paymentIntentId = 1

\* the rows of tenants other than t are in table new as they are in table
\* old, and the rows that are new belong to t
OthersKept(old, new, t) ==
  /\ Len(new) >= Len(old)
  /\ \A i \in 1..Len(old) :
       (old[i].tenantId # t \/ new[i].tenantId # t) => new[i] = old[i]
  /\ \A i \in (Len(old) + 1)..Len(new) : new[i].tenantId = t
\* request p takes a step of a ledger operation invoked for tenant t
LedgerStep(p, t) ==
  \/ pc[p] # "idle" /\ req[p].tenantId = t /\ pc'[p] # pc[p]
  \/ /\ pc[p] = "idle"
     /\ \E c \in Customers, a \in {Cents(1)} :
          TxNotFound(p, t, c, a) \/ TxSelect(p, t, c, a)
  \/ /\ result'[p].route = "PUT /balance" /\ pc' = pc
     /\ \E id \in 1..MaxCredits, b \in IsolationBalances :
          PutCreditBalance(p, t, id, b)
\* request p takes a step of a payment operation invoked for tenant t
PaymentStep(p, t) ==
  \/ payPc[p] # "idle" /\ payLocal[p].tenantId = t /\ payPc'[p] # payPc[p]
  \/ /\ payPc[p] = "idle"
     /\ \/ /\ reply'[p].route = "PUT /payments/status"
           /\ \E id \in PaymentIds :
                PutPaymentStatus(p, t, id, "failed", NullMetadata)
        \/ /\ reply'[p].route \in {"", "POST /confirm-payment"}
           /\ ConfirmFind(p, t, 1, "", 0, "")
        \/ /\ reply'[p].route \in {"", "POST /refund-payment"}
           /\ \E id \in PaymentIds : RefundFind(p, t, id)

\* C22: a step of a ledger or payment operation invoked for tenant t leaves
\* every credit account, credit transaction and payment of another tenant as
\* it is, reads into the handler only rows of t, and returns only rows of t.
C22_TenantIsolation ==
  [][\A p \in Procs, t \in Tenants :
       (IF UNCHANGED ledgerVars
        THEN PaymentStep(p, t) ELSE LedgerStep(p, t)) =>
         /\ OthersKept(credits, credits', t)
         /\ OthersKept(creditTransactions, creditTransactions', t)
         /\ OthersKept(payments, payments', t)
         /\ creditAccount'[p].tenantId \in {"", t}
         /\ newTransaction'[p].tenantId \in {"", t}
         /\ payLocal'[p].payment.tenantId \in {"", t}
         /\ reply'[p] # reply[p] => reply'[p].payment.tenantId \in {"", t}]_vars

\* tenant t1 asked to set the status of the completed payment of tenant t2:
\* nothing was returned and the payment is as it was
C22_Witness ==
  /\ reply["p1"] = Reply("PUT /payments/status", 200, NoPayment)
  /\ Len(payments) = 1
  /\ payments[1].tenantId = "t2"
  /\ payments[1].status = "completed"

\* request p writes status st and metadata md to payment i of tenant t in
\* this step
StatusWrite(p, t, i, st, md) ==
  \/ /\ payPc[p] \in {"confirm", "mark"}
     /\ payLocal[p].payment.id = i /\ payLocal[p].tenantId = t
     /\ st = (IF payPc[p] = "mark" THEN "refunded" ELSE payLocal[p].status)
     /\ md = (IF payPc[p] = "mark"
              THEN Metadata("", 0, "", payLocal[p].refund)
              ELSE payLocal[p].metadata)
  \/ /\ payPc[p] = "idle"
     /\ reply'[p].route = "PUT /payments/status"
     /\ PutPaymentStatus(p, t, i, st, md)

\* C23: a step that changes a payment is the write of one status update for
\* that payment's id and tenant: it sets status, metadata and updatedAt of
\* that row together and changes nothing else of it and no other row; a row
\* whose metadata was written has its updatedAt written; a failure or timeout
\* of a handler changes no payment.
C23_StatusWriteAtomic ==
  /\ [](\A i \in 1..Len(payments) :
          ~payments[i].metadata.null => payments[i].updatedAt = NewDate)
  /\ [][/\ \A i \in 1..Len(payments) :
            payments'[i] # payments[i] =>
              /\ Len(payments') = Len(payments)
              /\ \A j \in 1..Len(payments) :
                   j # i => payments'[j] = payments[j]
              /\ payments'[i] =
                   [payments[i] EXCEPT !.status = payments'[i].status,
                                       !.metadata = payments'[i].metadata,
                                       !.updatedAt = NewDate]
              /\ \E p \in Procs :
                   StatusWrite(p, payments[i].tenantId, i,
                               payments'[i].status, payments'[i].metadata)
       /\ \A p \in Procs :
            (PayStoreFail(p) \/ PayGatewayFail(p)) => payments' = payments
     ]_vars

\* the write failed for the confirmation of one payment and was made for the
\* other: one row as inserted, one with status, metadata and updatedAt set
C23_Witness ==
  /\ Len(payments) = 2
  /\ payments[1].status = "pending" /\ payments[1].metadata.null
  /\ payments[1].updatedAt = 0
  /\ payments[2].status = "completed" /\ ~payments[2].metadata.null
  /\ payments[2].updatedAt = NewDate
  /\ payments[2].paymentIntentId = 1 /\ payments[2].method = "card"
  /\ reply["p1"] = Reply("POST /confirm-payment", 500, NoPayment)

Member(u, t) == u # "anon" /\ t \in getUserTenants(u)
\* the ledger and payment state a handler reads into or writes
HandlerState == <<credits, creditTransactions, pc, req, creditAccount,
                  newTransaction, payments, stripeIntents, stripeRefunds,
                  payPc, payLocal>>

\* C25: a request to a ledger or payment route of a tenant by a user without
\* a session is turned away, by a user who is not a member of the tenant it
\* gets 403, and neither reads into a handler nor changes ledger, payment or
\* gateway state; a handler
\* starts, and the tables change, only in a step of a member's request or of
\* a handler such a request started.
C25_AccessBeforeHandler ==
  [][/\ \A p \in Procs, u \in Users, t \in Tenants :
          ~Member(u, t) =>
            /\ (/\ UNCHANGED payVars
                /\ ~(/\ u # "anon" => result'[p].status = 403
                     /\ UNCHANGED HandlerState)) =>
                 ~LedgerRequest(p, u, t)
            /\ (/\ UNCHANGED ledgerVars
                /\ ~(/\ u # "anon" => reply'[p].status = 403
                     /\ UNCHANGED HandlerState)) =>
                 ~PaymentRequest(p, u, t)
     /\ ~UNCHANGED HandlerState =>
          \E p \in Procs :
            \/ pc[p] # "idle"
            \/ payPc[p] # "idle"
            \/ \E u \in Users, t \in Tenants :
                 /\ Member(u, t)
                 /\ LedgerRequest(p, u, t) \/ PaymentRequest(p, u, t)]_vars

\* a request was turned away with 403 while a completed card payment of
\* tenant t2 exists: it is as it was
C25_Witness ==
  /\ reply["p1"] = Reply("/api/tenants/:tenantId", 403, NoPayment)
  /\ Len(payments) >= 1
  /\ payments[1].tenantId = "t2"
  /\ payments[1].status = "completed"
  /\ payments[1].updatedAt = 0

\* the gateway refunds created for a charge
RefundsOf(chargeId) ==
  {r \in 1..Len(stripeRefunds) : stripeRefunds[r] = chargeId}
\* the payment row i is the only one of its charge
OwnCharge(i) ==
  /\ payments[i].chargeId # 0
  /\ \A j \in 1..Len(payments) :
       payments[j].chargeId = payments[i].chargeId => j = i

\* C26: for a payment with a charge of its own, at most one gateway refund
\* of the charge exists, and once no refund call is running a payment whose
\* charge has a gateway refund has status refunded.
C26_OneRefundAndMarked ==
  \A i \in 1..Len(payments) :
    OwnCharge(i) =>
      /\ Cardinality(RefundsOf(payments[i].chargeId)) <= 1
      /\ (/\ RefundsOf(payments[i].chargeId) # {}
          /\ \A p \in Procs : payPc[p] = "idle") =>
           payments[i].status = "refunded"

\* the sum, in thousandths, of the amounts of the first n rows of the
\* credit transactions rows of (tenant t, customer c)
RECURSIVE SumAmounts(_, _, _, _)
SumAmounts(rows, t, c, n) ==
  IF n = 0 THEN 0
  ELSE SumAmounts(rows, t, c, n - 1) +
       (IF rows[n].tenantId = t /\ rows[n].customerId = c
        THEN rows[n].amount.m ELSE 0)
\* the credits row i is the only account of its (tenant, customer)
OnlyAccount(i) ==
  \A j \in 1..Len(credits) :
    (/\ credits[j].tenantId = credits[i].tenantId
     /\ credits[j].customerId = credits[i].customerId) => j = i

\* C27: while no balance override runs, every step changes the balance of
\* the one account of a (tenant, customer) by exactly the sum of the amounts
\* of the credit transaction rows the step persists for that pair; so the
\* balance stays its opening balance plus the sum of the pair's rows.
C27_LedgerConservation ==
  [][\A i \in 1..Len(credits) :
       (OnlyAccount(i) /\ OnlyAccount(i)' /\ credits[i].balance.k = "num") =>
         credits'[i].balance.m - credits[i].balance.m =
           SumAmounts(creditTransactions', credits[i].tenantId,
                      credits[i].customerId, Len(creditTransactions')) -
           SumAmounts(creditTransactions, credits[i].tenantId,
                      credits[i].customerId, Len(creditTransactions))]_vars

\* the payment rows that carry the gateway intent i
RowsOfIntent(i) ==
  {k \in 1..Len(payments) : payments[k].paymentIntentId = i}
\* a create-payment-intent call holds intent i and has not ended
IntentInHand(i) ==
  \E p \in Procs : payPc[p] = "insert" /\ payLocal[p].paymentIntent = i

\* C28: every payment intent created at the gateway has a payment row with
\* its intent id once the call that created it has ended, in success or in
\* failure.
C28_IntentHasPayment ==
  \A i \in 1..stripeIntents : RowsOfIntent(i) # {} \/ IntentInHand(i)

\* C29: a charge that returns success changes, of the credits table, only
\* the balance of one account, an account of the charge's (tenant, customer);
\* its limit and status and every other account stay as they were; and it
\* appends exactly one credit transaction row, of that (tenant, customer).
C29_ChargeFrame ==
  [][\A p \in Procs :
       (Returns(p) /\ result'[p].status = 201) =>
         LET i == creditAccount[p].id
             n == Len(creditTransactions)
         IN /\ i \in 1..Len(credits)
            /\ credits[i].tenantId = req[p].tenantId
            /\ credits[i].customerId = req[p].customerId
            /\ Len(credits') = Len(credits)
            /\ \A j \in 1..Len(credits) :
                 credits'[j] =
                   IF j = i
                   THEN [credits[i] EXCEPT !.balance = credits'[i].balance]
                   ELSE credits[j]
            /\ Len(creditTransactions') = n + 1
            /\ SubSeq(creditTransactions', 1, n) = creditTransactions
            /\ creditTransactions'[n + 1].tenantId = req[p].tenantId
            /\ creditTransactions'[n + 1].customerId = req[p].customerId
     ]_vars

\* a charge of tenant t1 succeeded while tenant t2 holds a suspended account
\* of the same customer: that account is as it was created
C29_Witness ==
  /\ result["p1"].route = "POST /credit-transactions"
  /\ result["p1"].status = 201
  /\ Len(credits) = 2 /\ Len(creditTransactions) = 1
  /\ creditTransactions[1].tenantId = "t1"
  /\ credits[2].tenantId = "t2" /\ credits[2].status = "suspended"
  /\ credits[2].balance = Str(0)
  /\ credits[1].balance = Cents(1)

\* balance + amount <= limit, in whole cents
Fits(account, amount) ==
  account.balance.m + amount.m <= account.limitAmount.m

\* C30: whatever the status of the account, a charge of whole cents is
\* accepted exactly when balance + amount <= limit and is refused with the
\* limit message otherwise; an accepted charge that returns sets the balance
\* to balance + amount and leaves the status as it is.
C30_StatusBlind ==
  [][\A p \in Procs :
       LET account == creditAccount[p]
       IN /\ pc[p] = "check" =>
               /\ pc'[p] = "commit" => Fits(account, req[p].amount)
               /\ (Returns(p) /\ result'[p].status = 400) =>
                    ~Fits(account, req[p].amount)
               /\ ENABLED TxUpdate(p) \/ ENABLED TxLimitExceeded(p)
          /\ (Returns(p) /\ result'[p].status = 201) =>
               /\ credits'[account.id].balance.m =
                    account.balance.m + req[p].amount.m
               /\ credits'[account.id].status = account.status
     ]_vars

\* a charge on a frozen account with room under its limit succeeded, and one
\* on a suspended account over its limit was the last to be refused
C30_Witness ==
  /\ Len(credits) = 2 /\ Len(creditTransactions) = 1
  /\ credits[1].status = "frozen" /\ credits[1].balance = Cents(1)
  /\ creditTransactions[1].tenantId = credits[1].tenantId
  /\ credits[2].status = "suspended"
  /\ credits[2].balance = Cents(MaxLimit + 1)
  /\ result["p1"].route = "POST /credit-transactions"
  /\ result["p1"].status = 400

====
